---- MODULE Spec2Model ----
(***************************************************************************)
(* Model of src/app.py, the WeAR Galaxy Streamlit page.                    *)
(*                                                                         *)
(* Streamlit runs the whole script top to bottom once per page load, per   *)
(* widget interaction and per plain rerun.  One script run is modelled as  *)
(* a sequence of steps split at the remote calls (the only blocking        *)
(* points): config -> input -> calling -> panel for the three analysis     *)
(* modes and config -> chat -> chat_input -> sending for the Chatbot mode. *)
(* st.session_state survives from run to run; everything else is rebuilt.  *)
(*                                                                         *)
(* Text is a sequence of pieces: the literal chunks of the source's string *)
(* templates and the single characters of the remote replies.              *)
(***************************************************************************)
EXTENDS Naturals, Sequences, FiniteSets

\* ------------------------------------------------------------- bounds
\* Longest remote reply, in characters.
MaxReplyLen == 3
\* Most chat submissions in one session.
MaxChats == 2

VARIABLES
    cred,           \* where GEMINI_API_KEY can be found by this process
    session_keys,   \* the keys present in st.session_state
    analysis_text,  \* st.session_state['analysis_text']
    messages,       \* st.session_state.messages
    chat,           \* st.session_state.chat: NoChat or a session handle
    widgets,        \* widget values: radio, camera/file input, selectbox
    trigger,        \* what started the current (or last) script run
    chat_prompt,    \* what st.chat_input returns in this run
    pc,             \* position of the script run
    gateway,        \* remote calls issued by this run, and the last prompt
    reply,          \* outcome of this run's generate_content call
    shown,          \* what the page displays
    startChats      \* start_chat invocations, from the first that succeeded

vars == <<cred, session_keys, analysis_text, messages, chat, widgets, trigger,
          chat_prompt, pc, gateway, reply, shown, startChats>>

\* ------------------------------------------------------------- text
Whitespace == {" ", "\n", "\t"}

ReplyChars == {" ", "x"}

\* Every text the remote model may return.
Replies == UNION {[1..n -> ReplyChars] : n \in 0..MaxReplyLen}

\* str(e) of an exception raised by a remote call; an exception built
\* without arguments has the empty string.
ExcMessages == {<< >>, <<"quota exceeded">>}

RECURSIVE lstrip(_)
lstrip(t) == IF t # << >> /\ Head(t) \in Whitespace THEN lstrip(Tail(t)) ELSE t

RECURSIVE rstrip(_)
rstrip(t) ==
    IF t # << >> /\ t[Len(t)] \in Whitespace
    THEN rstrip(SubSeq(t, 1, Len(t) - 1))
    ELSE t

\* Fault variant of strip: the reply is used as returned.
strip_identity(t) == t

\* str.strip()
strip(t) == rstrip(lstrip(t))

\* ------------------------------------------------------------- constants
Modes == {"Webcam", "Upload Image", "Manual Input", "Chatbot"}

SelectAShape == "Select a Shape"

face_shapes == {SelectAShape, "Oval", "Square", "Round", "Heart"}

\* What the camera or the file picker holds: nothing, an image cv2 decodes,
\* bytes PIL can show but cv2.imdecode cannot decode ("nocv"), or bytes
\* neither can read.  The camera input has no PIL preview.
ImgKinds(mode) ==
    IF mode = "Webcam" THEN {"none", "valid", "nocv"}
    ELSE {"none", "valid", "nocv", "corrupt"}

Placeholder == <<"Analysis will appear here.">>

\* Fault variant of AnalyzingText: the in-progress value is never written.
AnalyzingText_Stale == Placeholder

AnalyzingText == <<"Analyzing with AI...">>

GettingSuggestionText(shape_name) ==
    <<"Getting suggestion for ", shape_name, " face...">>

\* Fault variant of FailureText: the message alone, without the prefix.
FailureText_NoPrefix(detail) == detail

\* f"API Call Failed: {str(e)}"
FailureText(detail) == <<"API Call Failed: ">> \o detail

ImagePrompt ==
    <<"Analyze the face in this image. 1. Determine the face shape (e.g., Oval, Round, Square, Heart). 2. Based on that shape, provide a concise suggestion for suitable glasses in ",
      "15 words or less",
      ". Format your response exactly like this: Your Face Shape Is: [Detected Shape] WeAR AI's Suggestion: [Your Suggestion]">>

SuggestionPrompt(shape_name) ==
    <<"You are a helpful and concise fashion assistant named WeAR AI. My face shape is '",
      shape_name,
      "'. In ",
      "15 words or less",
      ", what are the best types of glasses for me? Format your response exactly like this: WeAR AI's Suggestion: [Your Suggestion]">>

SuggestionText(shape_name, text) ==
    <<"Your Face Shape Is: ", shape_name, "\n">> \o strip(text)

Greeting ==
    [role |-> "assistant",
     content |-> "Hello! I am the WeAR AI. How can I help you find the perfect glasses frames today?"]

UserPrompts == {"q"}

ChatReplies == {"r"}

NoPrompt == ""

NoChat == 0

NoReply == [made |-> FALSE, ok |-> FALSE, text |-> << >>]

\* What generate_content may do: return a text or raise.
Outcomes ==
    {[made |-> TRUE, ok |-> TRUE, text |-> r] : r \in Replies}
        \cup {[made |-> TRUE, ok |-> FALSE, text |-> d] : d \in ExcMessages}

NoCalls == [calls |-> 0, prompt |-> << >>]

Blank ==
    [fatal |-> FALSE, exception |-> FALSE, panel |-> FALSE, text |-> << >>,
     transcript |-> << >>, warnings |-> 0]

\* ------------------------------------------------------------- helpers
ImageMode(w) == w.mode \in {"Webcam", "Upload Image"}

\* Lines 181-187: the try block raises only when a call in it raises.  With
\* the key in neither place API_KEY is None: st.secrets.get raises when no
\* secrets file exists ("nostore"); with a secrets file that lacks the key
\* ("nokey") nothing in the block checks API_KEY and nothing raises.
ConfigRaises(c) == c = "nostore"

\* Fault variant of AnalyzeTriggered: the analysis runs on every render.
AnalyzeTriggered_Always(w, t) == TRUE

\* `if picture:` / `if uploaded_file:` and, inside it, `if st.button(...)`.
AnalyzeTriggered(w, t) == w.img # "none" /\ t = "click"

\* cv2.imdecode returns None for bytes it cannot decode; cv2.cvtColor then
\* raises, outside any try block.
Decodes(img) == img = "valid"

\* st.image(uploaded_file) raises for bytes PIL cannot read.
PreviewRaises(w) == w.mode = "Upload Image" /\ w.img = "corrupt"

\* The Analyze button was drawn by the last run.
ButtonRendered(w) == ImageMode(w) /\ w.img # "none" /\ ~PreviewRaises(w)

PromptFor(w) ==
    IF ImageMode(w) THEN ImagePrompt ELSE SuggestionPrompt(w.shape)

\* Fault variant of ResolvedText: the except branch assigns nothing.
ResolvedText_DropFailure(w, out, current) ==
    IF out.ok
    THEN IF ImageMode(w) THEN strip(out.text) ELSE SuggestionText(w.shape, out.text)
    ELSE current

\* Lines 213-215 and 228-230: the value the try/except leaves.
ResolvedText(w, out, current) ==
    IF out.ok
    THEN IF ImageMode(w) THEN strip(out.text) ELSE SuggestionText(w.shape, out.text)
    ELSE FailureText(out.text)

\* Fault variant of NeedsChat: the chat is created on every render.
NeedsChat_Always(c) == TRUE

\* `if st.session_state.chat is None:`
NeedsChat(c) == c = NoChat

UserTurns(ms) == Cardinality({i \in 1..Len(ms) : ms[i].role = "user"})

ExceptionShown(ms) ==
    [fatal |-> FALSE, exception |-> TRUE, panel |-> FALSE, text |-> << >>,
     transcript |-> ms, warnings |-> 0]

\* ------------------------------------------------------------- Init
Init ==
    /\ cred \in {"env", "secrets", "nokey", "nostore"}
    /\ session_keys = {}
    /\ analysis_text = << >>
    /\ messages = << >>
    /\ chat = NoChat
    /\ widgets = [mode |-> "Webcam", img |-> "none", shape |-> SelectAShape]
    /\ trigger = "load"
    /\ chat_prompt = NoPrompt
    /\ pc = "config"
    /\ gateway = NoCalls
    /\ reply = NoReply
    /\ shown = Blank
    /\ startChats = 0

\* ------------------------------------------------------------- user
StartRun(t, p) ==
    /\ pc = "idle"
    /\ pc' = "config"
    /\ trigger' = t
    /\ chat_prompt' = p
    /\ gateway' = NoCalls
    /\ reply' = NoReply
    /\ UNCHANGED <<cred, session_keys, analysis_text, messages, chat, shown,
                   startChats>>

\* st.radio: the widgets of the mode left are unmounted and start afresh.
UserSelectMode(m) ==
    /\ ~shown.fatal
    /\ m # widgets.mode
    /\ widgets' = [mode |-> m, img |-> "none", shape |-> SelectAShape]
    /\ StartRun("widget", NoPrompt)

\* st.camera_input / st.file_uploader: capture, choose or clear.
UserSetImage(k) ==
    /\ ~shown.fatal
    /\ ImageMode(widgets)
    /\ k # widgets.img
    /\ widgets' = [widgets EXCEPT !.img = k]
    /\ StartRun("widget", NoPrompt)

\* st.selectbox
UserSelectShape(s) ==
    /\ ~shown.fatal
    /\ widgets.mode = "Manual Input"
    /\ s # widgets.shape
    /\ widgets' = [widgets EXCEPT !.shape = s]
    /\ StartRun("widget", NoPrompt)

\* st.button("Analyze Photo") / st.button("Analyze Uploaded Image")
UserClickAnalyze ==
    /\ ~shown.fatal
    /\ ButtonRendered(widgets)
    /\ UNCHANGED widgets
    /\ StartRun("click", NoPrompt)

\* st.chat_input: drawn only once start_chat has succeeded.
UserChatSubmit(p) ==
    /\ ~shown.fatal
    /\ widgets.mode = "Chatbot"
    /\ chat # NoChat
    /\ UserTurns(messages) < MaxChats
    /\ UNCHANGED widgets
    /\ StartRun("chat", p)

\* A rerun with no user action: same widget values, no button, no prompt.
Rerun ==
    /\ UNCHANGED widgets
    /\ StartRun("rerun", NoPrompt)

\* ------------------------------------------------------------- script
\* Lines 181-195.
Configure ==
    /\ pc = "config"
    /\ IF ConfigRaises(cred)
       THEN /\ shown' = [Blank EXCEPT !.fatal = TRUE]
            /\ pc' = "idle"
            /\ UNCHANGED <<session_keys, analysis_text, messages, chat>>
       ELSE /\ session_keys' = {"analysis_text", "messages", "chat"}
            /\ analysis_text' =
                 IF "analysis_text" \in session_keys THEN analysis_text
                 ELSE Placeholder
            /\ messages' = IF "messages" \in session_keys THEN messages ELSE << >>
            /\ chat' = IF "chat" \in session_keys THEN chat ELSE NoChat
            /\ pc' = IF widgets.mode = "Chatbot" THEN "chat" ELSE "input"
            /\ UNCHANGED shown
    /\ UNCHANGED <<cred, widgets, trigger, chat_prompt, gateway, reply, startChats>>

\* An uncaught exception in col1: the run ends, col2 is never drawn.
Crash ==
    /\ shown' = ExceptionShown(<< >>)
    /\ pc' = "idle"
    /\ UNCHANGED analysis_text

\* Lines 276-306, up to the remote call.
InputColumn ==
    /\ pc = "input"
    /\ IF ImageMode(widgets)
       THEN IF PreviewRaises(widgets)
            THEN Crash
            ELSE IF AnalyzeTriggered(widgets, trigger)
                 THEN IF Decodes(widgets.img)
                      THEN /\ analysis_text' = AnalyzingText
                           /\ pc' = "calling"
                           /\ UNCHANGED shown
                      ELSE Crash
                 ELSE /\ pc' = "panel"
                      /\ UNCHANGED <<analysis_text, shown>>
       ELSE IF widgets.shape # SelectAShape
            THEN /\ analysis_text' = GettingSuggestionText(widgets.shape)
                 /\ pc' = "calling"
                 /\ UNCHANGED shown
            ELSE /\ pc' = "panel"
                 /\ UNCHANGED <<analysis_text, shown>>
    /\ UNCHANGED <<cred, session_keys, messages, chat, widgets, trigger,
                   chat_prompt, gateway, reply, startChats>>

\* Lines 212-215 and 227-230: model.generate_content returns or raises.
GenerateContent ==
    /\ pc = "calling"
    /\ \E out \in Outcomes :
         /\ reply' = out
         /\ analysis_text' = ResolvedText(widgets, out, analysis_text)
    /\ gateway' = [calls |-> gateway.calls + 1, prompt |-> PromptFor(widgets)]
    /\ pc' = "panel"
    /\ UNCHANGED <<cred, session_keys, messages, chat, widgets, trigger,
                   chat_prompt, shown, startChats>>

\* Lines 308-310.
ResultPanel ==
    /\ pc = "panel"
    /\ shown' = [Blank EXCEPT !.panel = TRUE, !.text = analysis_text]
    /\ pc' = "idle"
    /\ UNCHANGED <<cred, session_keys, analysis_text, messages, chat, widgets,
                   trigger, chat_prompt, gateway, reply, startChats>>

\* Lines 316-326: model.start_chat returns a handle or raises.
ChatSetup ==
    /\ pc = "chat"
    /\ IF NeedsChat(chat)
       THEN \E ok \in BOOLEAN :
              /\ gateway' = [gateway EXCEPT !.calls = gateway.calls + 1]
              /\ startChats' =
                   IF ok \/ startChats > 0 THEN startChats + 1 ELSE startChats
              /\ IF ok
                 THEN /\ chat' = startChats + 1
                      /\ messages' = <<Greeting>>
                      /\ pc' = "chat_input"
                      /\ UNCHANGED shown
                 ELSE /\ shown' = ExceptionShown(<< >>)
                      /\ pc' = "idle"
                      /\ UNCHANGED <<chat, messages>>
       ELSE /\ pc' = "chat_input"
            /\ UNCHANGED <<chat, messages, shown, gateway, startChats>>
    /\ UNCHANGED <<cred, session_keys, analysis_text, widgets, trigger,
                   chat_prompt, reply>>

\* Lines 328-335.
ChatInput ==
    /\ pc = "chat_input"
    /\ IF chat_prompt # NoPrompt
       THEN /\ messages' = Append(messages, [role |-> "user", content |-> chat_prompt])
            /\ pc' = "sending"
            /\ UNCHANGED shown
       ELSE /\ shown' = [Blank EXCEPT !.transcript = messages]
            /\ pc' = "idle"
            /\ UNCHANGED messages
    /\ UNCHANGED <<cred, session_keys, analysis_text, chat, widgets, trigger,
                   chat_prompt, gateway, reply, startChats>>

\* Lines 337-341: send_message returns or raises; nothing catches it.
SendMessage ==
    /\ pc = "sending"
    /\ gateway' = [gateway EXCEPT !.calls = gateway.calls + 1]
    /\ \/ \E r \in ChatReplies :
            /\ messages' = Append(messages, [role |-> "assistant", content |-> r])
            /\ shown' = [Blank EXCEPT !.transcript = messages']
       \/ /\ shown' = ExceptionShown(messages)
          /\ UNCHANGED messages
    /\ pc' = "idle"
    /\ UNCHANGED <<cred, session_keys, analysis_text, chat, widgets, trigger,
                   chat_prompt, reply, startChats>>

Next ==
    \/ \E m \in Modes : UserSelectMode(m)
    \/ \E k \in ImgKinds(widgets.mode) : UserSetImage(k)
    \/ \E s \in face_shapes : UserSelectShape(s)
    \/ UserClickAnalyze
    \/ \E p \in UserPrompts : UserChatSubmit(p)
    \/ Rerun
    \/ Configure
    \/ InputColumn
    \/ GenerateContent
    \/ ResultPanel
    \/ ChatSetup
    \/ ChatInput
    \/ SendMessage

Spec == Init /\ [][Next]_vars

\* ------------------------------------------------------------- claims
FourShapes == {"Oval", "Square", "Round", "Heart"}

\* The in-progress values, as the source spells them.
InProgressValues ==
    {<<"Analyzing with AI...">>}
        \cup {<<"Getting suggestion for ", s, " face...">> : s \in FourShapes}

\* t is r without its leading and trailing whitespace.
IsStripOf(t, r) ==
    \E i \in 0..Len(r) : \E j \in i..Len(r) :
        /\ t = SubSeq(r, i + 1, j)
        /\ \A k \in 1..i : r[k] \in Whitespace
        /\ \A k \in (j + 1)..Len(r) : r[k] \in Whitespace
        /\ t = << >> \/ (t[1] \notin Whitespace /\ t[Len(t)] \notin Whitespace)

IsFailureText(t) == Len(t) >= 1 /\ t[1] = "API Call Failed: "

NoImageRun == ImageMode(widgets) /\ widgets.img = "none"

\* The in-progress value of spec.md section 3, its ellipsis written as three dots.
SpecAnalyzing == <<"Analyzing...">>

\* C1 as stated: while the remote call of an analysis request is pending
\* AnalysisResult is exactly "Analyzing...", set before the call is issued, and
\* once the call has resolved it is a final value, never the in-progress one.
C1_AnalyzingLiteral ==
    /\ pc = "calling" =>
         /\ gateway.calls = 0
         /\ analysis_text = SpecAnalyzing
    /\ (pc \in {"panel", "idle"} /\ reply.made) =>
         /\ analysis_text \notin InProgressValues
         /\ analysis_text # SpecAnalyzing
         /\ analysis_text # Placeholder

\* C1 amended: before the remote call is issued AnalysisResult is the
\* in-progress value of the mode, "Analyzing with AI..." for Webcam and Upload
\* Image and "Getting suggestion for <shape> face..." for Manual Input,
\* whatever it was before; once the call has resolved it is a final value and
\* never an in-progress one.
C1_InProgressThenFinal ==
    /\ pc = "calling" =>
         /\ gateway.calls = 0
         /\ ~reply.made
         /\ analysis_text =
              IF widgets.mode \in {"Webcam", "Upload Image"}
              THEN <<"Analyzing with AI...">>
              ELSE <<"Getting suggestion for ", widgets.shape, " face...">>
    /\ (pc \in {"panel", "idle"} /\ reply.made) =>
         /\ gateway.calls = 1
         /\ analysis_text \notin InProgressValues
         /\ analysis_text # Placeholder

\* C1 witness: a request made while an earlier final value was displayed has
\* resolved to a different final value.
C1_Witness ==
    /\ pc = "panel"
    /\ reply.made
    /\ shown.panel
    /\ shown.text # Placeholder
    /\ shown.text # analysis_text

C3_NonEmptyDetail ==
    (pc \in {"panel", "idle"} /\ reply.made /\ ~reply.ok) =>
        /\ IsFailureText(analysis_text)
        /\ Len(analysis_text) > 1

\* C3 amended: after a remote call that raised, AnalysisResult is
\* "API Call Failed: " followed by the exception's message, which may be
\* empty; the render completes with the result panel showing it, and a later
\* request whose call returns ends with the success value.
C3_FailureTextAndRecovery ==
    /\ (pc \in {"panel", "idle"} /\ reply.made /\ ~reply.ok) =>
         /\ analysis_text = <<"API Call Failed: ">> \o reply.text
         /\ pc = "idle" =>
              /\ shown.panel
              /\ ~shown.exception
              /\ shown.text = analysis_text
    /\ (pc = "panel" /\ reply.made /\ reply.ok /\ IsFailureText(shown.text)) =>
         /\ ~IsFailureText(analysis_text)
         /\ \E t \in Replies :
              /\ IsStripOf(t, reply.text)
              /\ analysis_text =
                   IF widgets.mode = "Manual Input"
                   THEN <<"Your Face Shape Is: ", widgets.shape, "\n">> \o t
                   ELSE t

\* C3 witness: with the failure of an earlier request on display, a later
\* request's call has returned.
C3_Witness ==
    /\ pc = "panel"
    /\ reply.made
    /\ reply.ok
    /\ shown.panel
    /\ IsFailureText(shown.text)

\* C4: after any chat submissions the transcript is the seed greeting followed
\* by alternating user and assistant turns, and no render was aborted by a
\* failed send_message.
C4_TranscriptAlternates ==
    (pc = "idle" /\ widgets.mode = "Chatbot" /\ chat # NoChat) =>
        /\ ~shown.exception
        /\ Len(messages) % 2 = 1
        /\ messages[1] = Greeting
        /\ \A i \in 2..Len(messages) :
             messages[i].role = IF i % 2 = 0 THEN "user" ELSE "assistant"

\* C5: once start_chat has succeeded it is not invoked again, the session
\* handle is the one it returned, and the transcript starts with the seed
\* greeting, which appears exactly once.
C5_ChatCreatedOnce ==
    /\ chat = NoChat => (startChats = 0 /\ messages = << >>)
    /\ chat # NoChat =>
         /\ startChats = 1
         /\ chat = 1
         /\ Len(messages) >= 1
         /\ messages[1] = Greeting
         /\ Cardinality({i \in 1..Len(messages) : messages[i] = Greeting}) = 1

\* C5 witness: Chatbot mode is entered again, through the mode selector,
\* with chat turns already in the transcript.
C5_Witness ==
    /\ pc = "chat_input"
    /\ trigger = "widget"
    /\ chat # NoChat
    /\ UserTurns(messages) >= 1

\* C6: a re-render with no user action, after a render that completed, leaves
\* the displayed analysis text and transcript as they were.
C6_RerenderSameDisplay ==
    [][(trigger = "rerun" /\ pc # "idle" /\ ~shown.fatal /\ ~shown.exception) =>
         /\ shown'.text = shown.text
         /\ shown'.transcript = shown.transcript]_vars

\* C7: the recommendation prompt contains the shape name, one of the four
\* labels, and the word bound, and when the gateway returns r AnalysisResult
\* is "Your Face Shape Is: " + shape + newline + r without its surrounding
\* whitespace.
C7_SuggestionPromptAndResult ==
    (widgets.mode = "Manual Input" /\ gateway.calls = 1) =>
        /\ widgets.shape \in FourShapes
        /\ \E i \in 1..Len(gateway.prompt) : gateway.prompt[i] = widgets.shape
        /\ \E i \in 1..Len(gateway.prompt) : gateway.prompt[i] = "15 words or less"
        /\ reply.made
        /\ reply.ok =>
             \E t \in Replies :
                 /\ IsStripOf(t, reply.text)
                 /\ analysis_text =
                      <<"Your Face Shape Is: ", widgets.shape, "\n">> \o t

\* C7 witness: for Round the gateway returned " x " and AnalysisResult is
\* "Your Face Shape Is: Round\nx".
C7_Witness ==
    /\ pc = "panel"
    /\ widgets.mode = "Manual Input"
    /\ widgets.shape = "Round"
    /\ reply.ok
    /\ reply.text = <<" ", "x", " ">>
    /\ analysis_text = <<"Your Face Shape Is: ", "Round", "\n", "x">>

\* C8: with the credential in neither the environment nor the secret store
\* the run halts with the fatal error: no session state is initialised,
\* nothing past the configuration runs and no remote call is issued.
C8_NoCredentialHalts ==
    cred \in {"nokey", "nostore"} =>
        /\ session_keys = {}
        /\ gateway.calls = 0
        /\ pc \in {"config", "idle"}
        /\ pc = "idle" => shown.fatal

\* C9: an analysis request on a picture or file that cannot be decoded issues
\* no remote call and the render completes, without an uncaught error, with
\* the result panel showing AnalysisResult.
C9_UndecodableIsNoImage ==
    (pc = "idle" /\ trigger = "click" /\ ImageMode(widgets)
        /\ widgets.img \in {"nocv", "corrupt"}) =>
        /\ gateway.calls = 0
        /\ ~shown.exception
        /\ shown.panel
        /\ shown.text = analysis_text

\* C10: whenever the result panel reads AnalysisResult, and in whatever the
\* panel displays, the value is the placeholder or a final value, never an
\* in-progress one.
C10_PanelNeverInProgress ==
    /\ pc = "panel" => analysis_text \notin InProgressValues
    /\ shown.panel => shown.text \notin InProgressValues

\* C10 witness: the panel is about to be drawn after the handler of this
\* render, whose remote call raised, has returned.
C10_Witness ==
    /\ pc = "panel"
    /\ reply.made
    /\ ~reply.ok
    /\ gateway.calls = 1
====
